---- MODULE Spec2Model ----
(***************************************************************************)
(* Admission control of the food-delivery API: the five rate limiters of   *)
(* the limiter module (express-rate-limit over a Redis store shared by     *)
(* every server process), the clear-rate-limits script, and the start-up,  *)
(* session store and SIGTERM shutdown of server.js.                        *)
(*                                                                         *)
(* Strings that are concatenated or matched (key prefixes, identities,     *)
(* KEYS patterns) are sequences of tokens, so that prefixing a key and     *)
(* matching a pattern are computed and not assumed.                        *)
(***************************************************************************)
EXTENDS Integers, Sequences, FiniteSets, Bags, TLC

VARIABLES
    now,        \* the store's clock, in milliseconds
    ticks,      \* steps the clock has made
    store,      \* Redis: key -> [count, expiry] for a counter, [sid, expiry] for a
                \* session; a key past its expiry is dead
    inflight,   \* bag of requests inside a limiter middleware, over all processes
    arrivals,   \* requests received so far
    tally,      \* <<limiter, key>> -> increments and decisions in the key's window
    tool,       \* the clear-rate-limits process
    server      \* the server.js process: start-up, sessions, shutdown

vars == <<now, ticks, store, inflight, arrivals, tally, tool, server>>

None == "none"

----------------------------------------------------------------------------
(* Bounds of the model *)

MaxArrivals == 3
MaxInFlight == 2
MaxTicks == 1
MaxBurst == 12
MaxShapes == 2
MaxConns == 2
MaxSignals == 2
TenantMaxRequests == 1
UserMaxRequests == 1

----------------------------------------------------------------------------
(* The limiter module *)

Limiters == {"general", "auth", "tenant", "user", "order"}

\* a second instance of each factory, made with other arguments:
\* tenantLimiter(TenantMaxRequests + 1, 60), userLimiter(UserMaxRequests + 1, 60)
Twin(l) ==
    CASE l = "tenant"  -> "tenant2"
      [] l = "tenant2" -> "tenant"
      [] l = "user"    -> "user2"
      [] l = "user2"   -> "user"

GeneralMax == 100
AuthMax == 5
OrderMax == 10
TenantWindowMinutes == 15
UserWindowMinutes == 15

\* rate-limit-redis prefixes every key with "rl:" when no prefix option is given
DefaultPrefix == <<"rl:">>

\* a factory that puts the instance's own window into the key prefix
PrefixMutPerInstance(l) ==
    CASE l = "tenant"  -> <<"tenant_limit:15:">>
      [] l = "tenant2" -> <<"tenant_limit:60:">>
      [] l = "user"    -> <<"user_limit:15:">>
      [] l = "user2"   -> <<"user_limit:60:">>
      [] l = "order"   -> <<"order_limit:">>
      [] OTHER         -> DefaultPrefix

Prefix(l) ==
    CASE l \in {"tenant", "tenant2"} -> <<"tenant_limit:">>
      [] l \in {"user", "user2"}     -> <<"user_limit:">>
      [] l = "order"  -> <<"order_limit:">>
      [] OTHER        -> DefaultPrefix

\* every window one hour long
WindowMsMutHour(l) == 60 * 60 * 1000

WindowMs(l) ==
    CASE l = "general" -> 15 * 60 * 1000
      [] l = "auth"    -> 15 * 60 * 1000
      [] l = "tenant"  -> TenantWindowMinutes * 60 * 1000
      [] l = "user"    -> UserWindowMinutes * 60 * 1000
      [] l = "order"   -> 60 * 60 * 1000
      [] l \in {"tenant2", "user2"} -> 60 * 60 * 1000

Max(l) ==
    CASE l = "general" -> GeneralMax
      [] l = "auth"    -> AuthMax
      [] l = "tenant"  -> TenantMaxRequests
      [] l = "user"    -> UserMaxRequests
      [] l = "order"   -> OrderMax
      [] l = "tenant2" -> TenantMaxRequests + 1
      [] l = "user2"   -> UserMaxRequests + 1

\* JavaScript truthiness of an optional string: undefined and "" are falsy
Truthy(s) == s # None /\ s # ""

\* req.user set to an object that carries no _id property
UserWithoutId == "{}"

\* req.user._id: undefined when the object has no such property
UserId(user) == IF user = UserWithoutId THEN None ELSE user

\* the outcome of a callback that throws a TypeError instead of returning
Throws == "TypeError"

\* v.toString(): reading a property of undefined throws
IdToString(v) == IF v = None THEN Throws ELSE v

\* a tenant key generator that reads the header before req.tenantId
KeyGeneratorMutHeaderFirst(l, req) ==
    CASE l \in {"tenant", "tenant2"} ->
            IF Truthy(req.header) THEN req.header
            ELSE IF Truthy(req.tenantId) THEN req.tenantId
            ELSE req.ip
      [] l \in {"user", "user2", "order"} ->
            IF req.user # None THEN IdToString(UserId(req.user)) ELSE req.ip
      [] OTHER -> req.ip

\* the user-scoped key generators without their fallback to req.ip
KeyGeneratorMutNoFallback(l, req) ==
    CASE l \in {"tenant", "tenant2"} ->
            IF Truthy(req.tenantId) THEN req.tenantId
            ELSE IF Truthy(req.header) THEN req.header
            ELSE req.ip
      [] l \in {"user", "user2", "order"} -> req.user
      [] OTHER -> req.ip

\* the keyGenerator option; general and auth use the library's default, req.ip
KeyGenerator(l, req) ==
    CASE l \in {"tenant", "tenant2"} ->
            IF Truthy(req.tenantId) THEN req.tenantId
            ELSE IF Truthy(req.header) THEN req.header
            ELSE req.ip
      [] l \in {"user", "user2", "order"} ->
            IF req.user # None THEN IdToString(UserId(req.user)) ELSE req.ip
      [] OTHER -> req.ip

\* RedisStore.prefixKey: prefix + key
PrefixKey(l, key) == Prefix(l) \o <<key>>

StoreKey(l, req) == PrefixKey(l, KeyGenerator(l, req))

\* a store created with resetExpiryOnChange: true
ResetExpiryOnChangeMutTrue(l) == TRUE

\* the resetExpiryOnChange option of the store, which no limiter sets
ResetExpiryOnChange(l) == FALSE

----------------------------------------------------------------------------
(* Requests and routes *)

IPs == {"ip1", "ip2"}

\* req.ip, req.user (its _id, or UserWithoutId), req.tenantId,
\* req.headers['x-tenant-id']
Req(ip, user, tenantId, header) ==
    [ip |-> ip, user |-> user, tenantId |-> tenantId, header |-> header]

Anonymous(ip) == Req(ip, None, None, None)

\* the requests sent to each route
Requests(route) ==
    CASE route = "login"   -> { Anonymous("ip1") }
      [] route = "orders"  -> { Anonymous("ip1"), Anonymous("ip2") }
      [] route = "profile" -> { Anonymous("ip1"), Anonymous("ip2") }
      [] route = "tenant"  -> { Req("ip1", None, None, "t1") }
      [] route = "checkout" -> { Anonymous("ip1"), Anonymous("ip2") }
      [] route = "tenant2"  -> { Req("ip1", None, None, "t1") }
      [] route = "profile2" -> { Anonymous("ip1") }

\* the limiters mounted on each route, in order
Routes == {"login", "orders", "tenant", "profile"}

\* the request shapes a key generator can be given on each route
Shapes(route) ==
    CASE route = "tenant" ->
            { Req("ip1", None, t, h) : t \in {None, "", "t1"}, h \in {None, "", "t2"} }
      [] OTHER ->
            { Req("ip1", u, None, None) : u \in {None, "u1", UserWithoutId} }

ShapeRoutes == {"tenant", "profile", "orders"}

\* the routes carrying the two instances of tenantLimiter and of userLimiter
InstanceRoutes == {"tenant", "tenant2", "profile", "profile2"}

\* the routes that carry more than one limiter
ChainRoutes == {"login", "checkout"}

Chain(route) ==
    CASE route = "login"   -> <<"general", "auth">>
      [] route = "orders"  -> <<"order">>
      [] route = "tenant"  -> <<"tenant">>
      [] route = "profile" -> <<"user">>
      [] route = "checkout" -> <<"user", "order">>
      [] route = "tenant2"  -> <<"tenant2">>
      [] route = "profile2" -> <<"user2">>

----------------------------------------------------------------------------
(* The shared counter store *)

Live(st, k, t) == k \in DOMAIN st /\ t < st[k].expiry

LiveKeys == { k \in DOMAIN store : Live(store, k, now) }

\* an increment that reads the count and writes it back in two commands, the
\* write of a concurrent increment being lost
IncrementMutLostUpdate(st, l, k, t) ==
    LET live  == Live(st, k, t)
        entry == IF live THEN st[k]
                 ELSE [count |-> 1, expiry |-> t + WindowMs(l), created |-> t]
    IN  [ store     |-> [x \in DOMAIN st \cup {k} |-> IF x = k THEN entry ELSE st[x]],
          totalHits |-> IF live THEN st[k].count + 1 ELSE 1,
          resetTime |-> entry.expiry,
          fresh     |-> ~live,
          prev      |-> IF k \in DOMAIN st /\ ~live THEN st[k].count ELSE 0 ]

\* the increment script of rate-limit-redis, which Redis runs atomically:
\*   totalHits = INCR key; timeToExpire = PTTL key;
\*   if timeToExpire <= 0 or resetExpiryOnChange then PEXPIRE key windowMs
\* (created, the instant the counter was created, is kept for the properties;
\*  prev is the count of the expired counter the new one replaces)
Increment(st, l, k, t) ==
    LET live         == Live(st, k, t)
        totalHits    == IF live THEN st[k].count + 1 ELSE 1
        timeToExpire == IF live THEN st[k].expiry - t ELSE -1
        expiry       == IF timeToExpire <= 0 \/ ResetExpiryOnChange(l)
                        THEN t + WindowMs(l)
                        ELSE st[k].expiry
        entry        == [ count |-> totalHits, expiry |-> expiry,
                          created |-> IF live THEN st[k].created ELSE t ]
    IN  [ store     |-> [x \in DOMAIN st \cup {k} |-> IF x = k THEN entry ELSE st[x]],
          totalHits |-> totalHits,
          resetTime |-> expiry,
          fresh     |-> ~live,
          prev      |-> IF k \in DOMAIN st /\ ~live THEN st[k].count ELSE 0 ]

----------------------------------------------------------------------------
(* History kept for the properties *)

NoTally == [evaluated |-> 0, allowed |-> 0, denied |-> 0]

Tally(l, k) == IF <<l, k>> \in DOMAIN tally THEN tally[<<l, k>>] ELSE NoTally

\* a counter created afresh starts a new window for every limiter using the key
TallyIncrement(l, k, fresh) ==
    LET base == IF fresh
                THEN [p \in { q \in DOMAIN tally : q[2] # k } |-> tally[p]]
                ELSE tally
        old  == IF <<l, k>> \in DOMAIN base THEN base[<<l, k>>] ELSE NoTally
    IN  [p \in DOMAIN base \cup {<<l, k>>} |->
            IF p = <<l, k>> THEN [old EXCEPT !.evaluated = @ + 1] ELSE base[p]]

TallyDecision(l, k, allowed) ==
    IF <<l, k>> \notin DOMAIN tally THEN tally
    ELSE [tally EXCEPT ![<<l, k>>] =
            IF allowed THEN [@ EXCEPT !.allowed = @ + 1]
                       ELSE [@ EXCEPT !.denied = @ + 1]]

NoTool ==
    [ pc |-> "idle", i |-> 1, keys |-> {}, found |-> {}, success |-> FALSE,
      error |-> FALSE, failedAt |-> None ]

\* server.js before its first statement has run
NoServer ==
    [ pc |-> "connectRedis", promise |-> "none", redisStore |-> None,
      sessionStore |-> None, listening |-> FALSE, handler |-> FALSE,
      conns |-> 0, sids |-> {}, signals |-> 0, closing |-> FALSE,
      closed |-> FALSE, cbs |-> 0, quits |-> 0, quitTried |-> FALSE,
      quitFailed |-> FALSE, exited |-> FALSE, status |-> 0 ]

ToolRunning == tool.pc \notin {"idle", "exit0", "exit1"}

----------------------------------------------------------------------------
(* The limiter middleware *)

Init ==
    /\ now = 0
    /\ ticks = 0
    /\ store = <<>>
    /\ inflight = EmptyBag
    /\ arrivals = 0
    /\ tally = <<>>
    /\ tool = NoTool
    /\ server = NoServer

Limiter(r) == Chain(r.route)[r.idx]

\* a request reaches the first limiter of its route
Receive(route, req) ==
    /\ ~ToolRunning
    /\ arrivals' = arrivals + 1
    /\ inflight' = inflight (+) SetToBag({
            [ route |-> route, req |-> req, attempt |-> 0,
              idx |-> 1, phase |-> "calling", k |-> 0, hits |-> 0, resetTime |-> 0,
              at |-> 0, fresh |-> FALSE, prev |-> 0, failed |-> FALSE,
              remaining |-> 0 ]})
    /\ UNCHANGED <<now, ticks, store, tally, tool, server>>

Arrive(route, req) ==
    /\ arrivals < MaxArrivals
    /\ BagCardinality(inflight) < MaxInFlight
    /\ Receive(route, req)

\* a remaining-quota header computed without the floor at zero
RemainingMutUnclamped(l, hits) == Max(l) - hits

\* the RateLimit-Remaining header: Math.max(max - totalHits, 0)
Remaining(l, hits) == IF Max(l) - hits > 0 THEN Max(l) - hits ELSE 0

\* the request once the store has answered its increment
Answer(r) ==
    LET l   == Limiter(r)
        key == StoreKey(l, r.req)
        res == Increment(store, l, key, now)
        k   == TallyIncrement(l, key, res.fresh)[<<l, key>>].evaluated
    IN  [r EXCEPT !.phase = "replied", !.hits = res.totalHits,
                  !.resetTime = res.resetTime, !.at = now, !.fresh = res.fresh,
                  !.prev = res.prev, !.k = k,
                  !.remaining = Remaining(l, res.totalHits),
                  !.attempt = IF r.idx = 1 THEN k ELSE @]

\* the keyGenerator callback throws: the middleware's promise rejects and the
\* error is passed to next(err) before the store is called
KeyThrow(r) ==
    /\ BagIn(r, inflight)
    /\ r.phase = "calling"
    /\ KeyGenerator(Limiter(r), r.req) = Throws
    /\ inflight' = (inflight (-) SetToBag({r})) (+) SetToBag({
            [r EXCEPT !.phase = "replied", !.failed = TRUE]})
    /\ UNCHANGED <<now, ticks, store, arrivals, tally, tool, server>>

\* store.increment(key): the store runs the script and answers
StoreIncrement(r) ==
    /\ BagIn(r, inflight)
    /\ r.phase = "calling"
    /\ KeyGenerator(Limiter(r), r.req) # Throws
    /\ LET l   == Limiter(r)
           key == StoreKey(l, r.req)
           res == Increment(store, l, key, now)
       IN  /\ store' = res.store
           /\ tally' = TallyIncrement(l, key, res.fresh)
           /\ inflight' = (inflight (-) SetToBag({r})) (+) SetToBag({Answer(r)})
    /\ UNCHANGED <<now, ticks, arrivals, tool, server>>

\* store.increment(key) rejects: getRedisClient() throws or the command fails
StoreFail(r) ==
    /\ BagIn(r, inflight)
    /\ r.phase = "calling"
    /\ inflight' = (inflight (-) SetToBag({r})) (+) SetToBag({
            [r EXCEPT !.phase = "replied", !.failed = TRUE]})
    /\ UNCHANGED <<now, ticks, store, arrivals, tally, tool, server>>

\* a middleware that calls next() whatever the count, and answers 429 only
\* as the last limiter of the route
OutcomeMutNoShortCircuit(r) ==
    IF r.failed THEN "error"
    ELSE IF r.idx < Len(Chain(r.route)) THEN "next"
    ELSE IF r.hits > Max(Limiter(r)) THEN "throttled"
    ELSE "forwarded"

\* what the middleware does with the store's answer
Outcome(r) ==
    IF r.failed THEN "error"
    ELSE IF r.hits > Max(Limiter(r)) THEN "throttled"
    ELSE IF r.idx < Len(Chain(r.route)) THEN "next"
    ELSE "forwarded"

Decide(r) ==
    /\ BagIn(r, inflight)
    /\ r.phase = "replied"
    /\ LET l   == Limiter(r)
           key == StoreKey(l, r.req)
           out == Outcome(r)
       IN  /\ tally' = IF r.failed THEN tally
                       ELSE TallyDecision(l, key, out # "throttled")
           /\ inflight' =
                IF out = "next"
                THEN (inflight (-) SetToBag({r})) (+) SetToBag({
                        [r EXCEPT !.idx = @ + 1, !.phase = "calling", !.k = 0,
                                  !.hits = 0, !.resetTime = 0, !.at = 0,
                                  !.fresh = FALSE, !.prev = 0,
                                  !.remaining = 0]})
                ELSE inflight (-) SetToBag({r})
    /\ UNCHANGED <<now, ticks, store, arrivals, tool, server>>

\* how far the clock moves in one step: within, or past, a 15-minute window
TickSteps == { 5 * 60 * 1000, 15 * 60 * 1000 }

\* minutes pass between requests (a request is in a limiter for milliseconds);
\* the windows of the counters that expire are forgotten
Tick(d) ==
    /\ ticks < MaxTicks
    /\ inflight = EmptyBag
    /\ ticks' = ticks + 1
    /\ now' = now + d
    /\ tally' = [p \in { q \in DOMAIN tally : Live(store, q[2], now') } |-> tally[p]]
    /\ UNCHANGED <<store, inflight, arrivals, tool, server>>

\* a burst of unauthenticated order requests, all of them in flight together
BurstRequests == { Anonymous("ip1") }

ArriveBurst(req) ==
    /\ arrivals < MaxBurst
    /\ Receive("orders", req)

\* a request of any shape reaches a route with a user- or tenant-scoped limiter
ArriveShape(route, req) ==
    /\ arrivals < MaxShapes
    /\ BagCardinality(inflight) < MaxInFlight
    /\ Receive(route, req)

----------------------------------------------------------------------------
(* scripts/clear-rate-limits.js *)

\* the pattern list without the store's default prefix
PatternsMutNoDefault ==
    << <<"auth_limit:", "*">>, <<"general_limit:", "*">>, <<"order_limit:", "*">>,
       <<"tenant_limit:", "*">>, <<"user_limit:", "*">> >>

\* a pattern list that asks for every key of the store
PatternsMutEveryKey ==
    << <<"*">>, <<"auth_limit:", "*">>, <<"general_limit:", "*">>,
       <<"order_limit:", "*">>, <<"tenant_limit:", "*">>, <<"user_limit:", "*">> >>

Patterns ==
    << <<"rl:", "*">>, <<"auth_limit:", "*">>, <<"general_limit:", "*">>,
       <<"order_limit:", "*">>, <<"tenant_limit:", "*">>, <<"user_limit:", "*">> >>

\* Redis glob matching for the patterns used here: a literal prefix, then "*"
Matches(pattern, key) ==
    LET n == Len(pattern) - 1
    IN  IF pattern[Len(pattern)] = "*"
        THEN Len(key) >= n /\ SubSeq(key, 1, n) = SubSeq(pattern, 1, n)
        ELSE key = pattern

\* KEYS pattern: the keys that exist (a key past its expiry does not)
Keys(pattern) == { k \in LiveKeys : Matches(pattern, k) }

\* DEL keys
Del(keys) == [k \in DOMAIN store \ keys |-> store[k]]

\* a catch block that reports the error and exits 0
ToolCatchMutExit0(step) ==
    tool' = [tool EXCEPT !.pc = "exit0", !.error = TRUE, !.failedAt = step]

\* the catch block: console.error, process.exit(1)
ToolCatch(step) ==
    tool' = [tool EXCEPT !.pc = "exit1", !.error = TRUE, !.failedAt = step]

\* the loop moves to the next pattern; after the last one the success message
\* is printed and quit() is called
ToolAdvance(t) ==
    IF t.i < Len(Patterns)
    THEN [t EXCEPT !.pc = "keys", !.i = @ + 1, !.keys = {}]
    ELSE [t EXCEPT !.pc = "quit", !.i = @ + 1, !.keys = {}, !.success = TRUE]

ToolStart ==
    /\ tool.pc = "idle"
    /\ inflight = EmptyBag
    /\ tool' = [tool EXCEPT !.pc = "connect"]
    /\ UNCHANGED <<now, ticks, store, inflight, arrivals, tally, server>>

\* await redisClient.connect()
ToolConnect(ok) ==
    /\ tool.pc = "connect"
    /\ IF ok THEN tool' = [tool EXCEPT !.pc = "keys", !.i = 1]
             ELSE ToolCatch("connect")
    /\ UNCHANGED <<now, ticks, store, inflight, arrivals, tally, server>>

\* const keys = await redisClient.keys(pattern)
ToolKeys(ok) ==
    /\ tool.pc = "keys"
    /\ IF ~ok THEN ToolCatch("keys")
       ELSE LET keys == Keys(Patterns[tool.i])
            IN  tool' = IF keys # {}
                        THEN [tool EXCEPT !.pc = "del", !.keys = keys,
                                          !.found = @ \cup keys]
                        ELSE ToolAdvance(tool)
    /\ UNCHANGED <<now, ticks, store, inflight, arrivals, tally, server>>

\* await redisClient.del(keys)
ToolDel(ok) ==
    /\ tool.pc = "del"
    /\ IF ok THEN /\ store' = Del(tool.keys)
                  /\ tool' = ToolAdvance(tool)
             ELSE /\ ToolCatch("del")
                  /\ UNCHANGED store
    /\ UNCHANGED <<now, ticks, inflight, arrivals, tally, server>>

\* await redisClient.quit(); process.exit(0)
ToolQuit(ok) ==
    /\ tool.pc = "quit"
    /\ IF ok THEN tool' = [tool EXCEPT !.pc = "exit0"]
             ELSE ToolCatch("quit")
    /\ UNCHANGED <<now, ticks, store, inflight, arrivals, tally, server>>

----------------------------------------------------------------------------
(* server.js *)

Rest == <<now, ticks, inflight, arrivals, tally, tool>>

SessionIds == {"s1", "s2"}

\* a session lives for the cookie's maxAge, 7 days
SessionTtl == 1000 * 60 * 60 * 24 * 7

\* connect-redis: prefix + sid
SessionKey(sid) == <<"session:", sid>>

\* connect-redis set(sid, session): SET key value EX ttl
SessionEntry(sid, t) == [sid |-> sid, expiry |-> t + SessionTtl]

\* express-session: opts.store || new MemoryStore()
SessionStore(opt) == IF opt = None THEN "MemoryStore" ELSE opt

\* connectRedis() is called; its promise is pending and .then/.catch are attached
CallConnectRedis ==
    /\ server.pc = "connectRedis"
    /\ server' = [server EXCEPT !.pc = "session", !.promise = "pending"]
    /\ UNCHANGED <<store, Rest>>

\* the connection attempt ends: the promise is fulfilled or rejected
RedisSettles(ok) ==
    /\ server.promise = "pending"
    /\ server' = [server EXCEPT !.promise = IF ok THEN "fulfilled" ELSE "rejected"]
    /\ UNCHANGED <<store, Rest>>

\* the .then / .catch callback: a promise job, run only once the module's
\* synchronous code has returned
PromiseCallback ==
    /\ server.promise \in {"fulfilled", "rejected"}
    /\ server.pc = "loaded"
    /\ server' = [server EXCEPT
            !.promise = "handled",
            !.redisStore = IF server.promise = "fulfilled" THEN "RedisStore" ELSE @]
    /\ UNCHANGED <<store, Rest>>

\* app.use(session({ store: redisStore, ... }))
UseSession ==
    /\ server.pc = "session"
    /\ server' = [server EXCEPT !.pc = "listen",
                                 !.sessionStore = SessionStore(server.redisStore)]
    /\ UNCHANGED <<store, Rest>>

\* server.listen(PORT, ...)
Listen ==
    /\ server.pc = "listen"
    /\ server' = [server EXCEPT !.pc = "sigterm", !.listening = TRUE]
    /\ UNCHANGED <<store, Rest>>

\* process.on('SIGTERM', ...), the last statement of the module
OnSigterm ==
    /\ server.pc = "sigterm"
    /\ server' = [server EXCEPT !.pc = "loaded", !.handler = TRUE]
    /\ UNCHANGED <<store, Rest>>

\* a client opens a connection to the listening server
Connect ==
    /\ server.pc = "loaded"
    /\ server.listening
    /\ ~server.exited
    /\ server.conns < MaxConns
    /\ server' = [server EXCEPT !.conns = @ + 1]
    /\ UNCHANGED <<store, Rest>>

Disconnect ==
    /\ server.conns > 0
    /\ ~server.exited
    /\ server' = [server EXCEPT !.conns = @ - 1]
    /\ UNCHANGED <<store, Rest>>

\* a request on an open connection saves its session in the middleware's store
SaveSession(sid) ==
    /\ server.conns > 0
    /\ ~server.exited
    /\ IF server.sessionStore = "RedisStore"
       THEN /\ store' = [k \in DOMAIN store \cup {SessionKey(sid)} |->
                            IF k = SessionKey(sid)
                            THEN SessionEntry(sid, now)
                            ELSE store[k]]
            /\ UNCHANGED server
       ELSE /\ server' = [server EXCEPT !.sids = @ \cup {sid}]
            /\ UNCHANGED store
    /\ UNCHANGED Rest

\* a server.close() that calls back at once, with connections still open
DrainedMutAtOnce(s) == TRUE

\* the server emits 'close' once it has stopped listening and every
\* connection has ended
Drained(s) == s.conns = 0

\* the SIGTERM handler: server.close(callback)
Sigterm ==
    /\ server.handler
    /\ server.pc = "loaded"
    /\ ~server.exited
    /\ server.signals < MaxSignals
    /\ server' = [server EXCEPT !.signals = @ + 1, !.listening = FALSE,
                                 !.closing = TRUE, !.cbs = @ + 1]
    /\ UNCHANGED <<store, Rest>>

\* the close callback up to its await: 'Server closed', getRedisClient(),
\* redisClient.quit()
CloseCallback ==
    /\ server.cbs > 0
    /\ Drained(server)
    /\ ~server.exited
    /\ server' = [server EXCEPT !.cbs = @ - 1, !.closed = TRUE,
                                 !.quits = @ + 1, !.quitTried = TRUE]
    /\ UNCHANGED <<store, Rest>>

\* the try block ends, by quit() resolving or by an error that is caught and
\* logged; then process.exit(0)
QuitSettles(ok) ==
    /\ server.quits > 0
    /\ ~server.exited
    /\ server' = [server EXCEPT !.quits = @ - 1, !.exited = TRUE, !.status = 0,
                                 !.quitFailed = IF ok THEN @ ELSE TRUE]
    /\ UNCHANGED <<store, Rest>>

----------------------------------------------------------------------------
(* Specifications *)

Next ==
    \/ \E route \in Routes : \E req \in Requests(route) : Arrive(route, req)
    \/ \E r \in BagToSet(inflight) : StoreIncrement(r)
    \/ \E r \in BagToSet(inflight) : StoreFail(r)
    \/ \E r \in BagToSet(inflight) : Decide(r)
    \/ \E d \in TickSteps : Tick(d)

Spec == Init /\ [][Next]_vars

\* the burst: many concurrent requests on the order limiter, within one window
NextBurst ==
    \/ \E req \in BurstRequests : ArriveBurst(req)
    \/ \E r \in BagToSet(inflight) : StoreIncrement(r)
    \/ \E r \in BagToSet(inflight) : Decide(r)

SpecBurst == Init /\ [][NextBurst]_vars

\* every evaluation a limiter can make of a request of its route
Evaluations ==
    { e \in Limiters \X UNION { Requests(route) : route \in Routes } :
        \E route \in Routes :
            /\ e[2] \in Requests(route)
            /\ \E i \in DOMAIN Chain(route) : Chain(route)[i] = e[1] }

\* the store after the evaluations in S, all made at time t
RECURSIVE Populate(_, _)
Populate(S, t) ==
    IF S = {} THEN <<>>
    ELSE LET e == CHOOSE x \in S : TRUE
         IN  Increment(Populate(S \ {e}, t), e[1], StoreKey(e[1], e[2]), t).store

\* the script is run by hand, while no request is being served
InitReset ==
    /\ now = 0
    /\ ticks = 0
    /\ \E S \in SUBSET Evaluations : store = Populate(S, 0)
    /\ inflight = EmptyBag
    /\ arrivals = 0
    /\ tally = <<>>
    /\ tool = NoTool
    /\ server = NoServer

NextReset ==
    \/ ToolStart
    \/ \E ok \in BOOLEAN : ToolConnect(ok)
    \/ \E ok \in BOOLEAN : ToolKeys(ok)
    \/ \E ok \in BOOLEAN : ToolDel(ok)
    \/ \E ok \in BOOLEAN : ToolQuit(ok)
    \/ \E d \in TickSteps : Tick(d)

SpecReset == InitReset /\ [][NextReset]_vars

\* the script run on a store that also holds sessions: the limiters' counters
\* and, under 'session:', the sessions in T
WithSessions(st, T) ==
    [k \in DOMAIN st \cup { SessionKey(sid) : sid \in T } |->
        IF k \in DOMAIN st THEN st[k]
        ELSE SessionEntry((CHOOSE sid \in T : SessionKey(sid) = k), 0)]

InitResetShared ==
    /\ now = 0
    /\ ticks = 0
    /\ \E S \in SUBSET Evaluations : \E T \in SUBSET SessionIds :
            store = WithSessions(Populate(S, 0), T)
    /\ inflight = EmptyBag
    /\ arrivals = 0
    /\ tally = <<>>
    /\ tool = NoTool
    /\ server = NoServer

SpecResetShared == InitResetShared /\ [][NextReset]_vars

\* traffic on the routes with several limiters, within one window
NextChain ==
    \/ \E route \in ChainRoutes : \E req \in Requests(route) : Arrive(route, req)
    \/ \E r \in BagToSet(inflight) : StoreIncrement(r)
    \/ \E r \in BagToSet(inflight) : StoreFail(r)
    \/ \E r \in BagToSet(inflight) : Decide(r)

SpecChain == Init /\ [][NextChain]_vars

\* the same traffic with the scheduling the code has: a middleware whose store
\* call has settled always runs on; nothing makes the store answer, and the
\* limiters put no timer on the call
SpecStoreSilent ==
    /\ Init
    /\ [][NextChain]_vars
    /\ WF_vars(\E r \in BagToSet(inflight) : Decide(r))

\* requests of every shape on the routes whose limiter has its own keyGenerator
NextShapes ==
    \/ \E route \in ShapeRoutes : \E req \in Shapes(route) : ArriveShape(route, req)
    \/ \E r \in BagToSet(inflight) : KeyThrow(r)
    \/ \E r \in BagToSet(inflight) : StoreIncrement(r)
    \/ \E r \in BagToSet(inflight) : Decide(r)

SpecShapes == Init /\ [][NextShapes]_vars

\* traffic on routes carrying different instances of one limiter factory
NextInstances ==
    \/ \E route \in InstanceRoutes : \E req \in Requests(route) : Arrive(route, req)
    \/ \E r \in BagToSet(inflight) : StoreIncrement(r)
    \/ \E r \in BagToSet(inflight) : Decide(r)
    \/ \E d \in TickSteps : Tick(d)

SpecInstances == Init /\ [][NextInstances]_vars

\* the life of the server process, from its first statement to its exit
NextServer ==
    \/ CallConnectRedis
    \/ \E ok \in BOOLEAN : RedisSettles(ok)
    \/ PromiseCallback
    \/ UseSession
    \/ Listen
    \/ OnSigterm
    \/ Connect
    \/ Disconnect
    \/ \E sid \in SessionIds : SaveSession(sid)
    \/ Sigterm
    \/ CloseCallback
    \/ \E ok \in BOOLEAN : QuitSettles(ok)

SpecServer == Init /\ [][NextServer]_vars

----------------------------------------------------------------------------
(* Properties *)

\* the requests whose increment the store has answered without error
Replied == { r \in BagToSet(inflight) : r.phase = "replied" /\ ~r.failed }

Allowed(r) == Outcome(r) # "throttled"

\* the quotas and windows as the specification states them
StatedMax(l) ==
    CASE l = "general" -> 100
      [] l = "auth"    -> 5
      [] l = "order"   -> 10
      [] l = "tenant"  -> TenantMaxRequests
      [] l = "user"    -> UserMaxRequests

StatedWindowMs(l) ==
    CASE l = "order" -> 60 * 60 * 1000
      [] OTHER       -> 15 * 60 * 1000

CounterIn(st, t, key) == IF Live(st, key, t) THEN st[key].count ELSE 0

\* C1: within one window, the k-th request a limiter evaluates for an identity
\* is allowed if and only if k <= maxRequests.
C1_ExactBoundary ==
    \A r \in Replied : Allowed(r) <=> r.k <= StatedMax(Limiter(r))

\* C2: of N requests for one order-limiter key processed concurrently, exactly
\* min(N, maxRequests) are allowed and the rest denied, and the counter equals
\* the number of increments applied: none is lost or counted twice.
C2_ConcurrentExact ==
    \A key \in DOMAIN store :
        LET t == Tally("order", key)
            n == t.evaluated
        IN  /\ store[key].count = n
            /\ \A r \in Replied : StoreKey("order", r.req) = key => r.hits = r.k
            /\ t.allowed <= (IF n < 10 THEN n ELSE 10)
            /\ t.denied <= n - (IF n < 10 THEN n ELSE 10)
            /\ inflight = EmptyBag =>
                 /\ t.allowed = (IF n < 10 THEN n ELSE 10)
                 /\ t.denied = n - t.allowed

C2_Witness ==
    /\ inflight = EmptyBag
    /\ \E key \in DOMAIN store :
         /\ Tally("order", key).evaluated > 10
         /\ Tally("order", key).allowed = 10
         /\ Tally("order", key).denied = Tally("order", key).evaluated - 10

\* C3: with generalLimiter and authLimiter on the login route, login attempts
\* 1 to 5 of one IP in one window are allowed and the 6th is the first denied.
C3_SixthLoginFirstDenied ==
    \A r \in Replied :
        r.route = "login" => (Allowed(r) <=> r.attempt <= 5)

\* C4: a request evaluated by one policy increments only that policy's counter
\* for the resolved identity; every other policy's counter for the same
\* identity is left unchanged.
C4_PoliciesIsolated ==
    [][ \A r \in BagToSet(inflight) :
            StoreIncrement(r) =>
                \A other \in Limiters \ {Limiter(r)} :
                    LET key == PrefixKey(other, KeyGenerator(Limiter(r), r.req))
                    IN  CounterIn(store', now', key) = CounterIn(store, now, key) ]_vars

\* C5: when the store call of a limiter fails, the limiter fails open: the
\* request goes on to the next handler and gets no error or throttling response.
C5_FailOpen ==
    \A r \in BagToSet(inflight) :
        (r.phase = "replied" /\ r.failed) => Outcome(r) \in {"next", "forwarded"}

\* C6: once a counter's window has elapsed since its creation, the next
\* request evaluated on it is allowed and the counter restarts at 1, whatever
\* count the previous window reached.
C6_WindowReset ==
    [][ \A r \in BagToSet(inflight) :
            StoreIncrement(r) =>
                LET key == StoreKey(Limiter(r), r.req)
                IN  (/\ key \in DOMAIN store
                     /\ now >= store[key].created + StatedWindowMs(Limiter(r)))
                    => /\ store'[key].count = 1
                       /\ store'[key].created = now
                       /\ Answer(r).hits = 1
                       /\ Allowed(Answer(r)) ]_vars

C6_Witness ==
    \E r \in Replied :
        /\ r.fresh
        /\ r.prev > Max(Limiter(r))
        /\ r.hits = 1
        /\ r.at >= StatedWindowMs(Limiter(r))
        /\ Allowed(r)

\* a key some policy of the limiter module writes
PolicyKey(k) == \E l \in Limiters : Len(k) > 1 /\ SubSeq(k, 1, Len(Prefix(l))) = Prefix(l)

\* C7: every key a policy writes is covered by a pattern of the reset tool,
\* and once the tool has exited 0 no key under a policy prefix remains.
C7_ResetClearsAll ==
    /\ \A k \in DOMAIN store :
         PolicyKey(k) => \E i \in DOMAIN Patterns : Matches(Patterns[i], k)
    /\ tool.pc = "exit0" => \A k \in LiveKeys : ~PolicyKey(k)

C7_Witness ==
    /\ tool.pc = "exit0"
    /\ LiveKeys = {}
    /\ \A l \in Limiters :
         \E e \in Evaluations : e[1] = l /\ StoreKey(l, e[2]) \in tool.found

\* C8 as stated: exit 0 only after every step succeeded; after a failure of
\* connect, keys, del or quit, exit 1 with the error reported and the success
\* message never printed.
C8_NoSuccessMessageOnFailure ==
    /\ tool.pc = "exit0" =>
         tool.failedAt = None /\ ~tool.error /\ tool.i = Len(Patterns) + 1
    /\ tool.failedAt # None => tool.pc = "exit1"
    /\ tool.pc = "exit1" => tool.error /\ tool.failedAt # None /\ ~tool.success

\* C8, amended: exit 0 only after connect, every keys and del, and quit
\* succeeded; a failure of any of them gives exit 1 with the error reported;
\* the success message is never printed when connect, keys or del failed, and
\* has already been printed when quit is the call that fails.
C8_ExitStatus ==
    /\ tool.pc = "exit0" =>
         /\ tool.failedAt = None /\ ~tool.error
         /\ tool.i = Len(Patterns) + 1
         /\ tool.success
    /\ tool.failedAt # None => tool.pc = "exit1"
    /\ tool.pc = "exit1" =>
         /\ tool.error
         /\ tool.failedAt \in {"connect", "keys", "del", "quit"}
         /\ tool.failedAt \in {"connect", "keys", "del"} => ~tool.success
         /\ tool.failedAt = "quit" => tool.success /\ tool.i = Len(Patterns) + 1

C8_Witness ==
    /\ tool.pc = "exit1"
    /\ tool.failedAt = "quit"
    /\ tool.success
    /\ tool.found # {}

UserScoped == {"user", "order"}

StatedPrefix(l) == IF l = "user" THEN "user_limit:" ELSE "order_limit:"

\* C9: a user-scoped limiter evaluating an unauthenticated request counts it
\* under the client IP: the counter of that IP holds the request, a denial
\* means that IP's own counter passed the quota, and the counter of every
\* other IP is left unchanged.
C9_IpFallback ==
    /\ [](\A r \in Replied :
            (Limiter(r) \in UserScoped /\ r.req.user = None) =>
                LET own == <<StatedPrefix(Limiter(r)), r.req.ip>>
                IN  /\ own \in DOMAIN store
                    /\ store[own].count >= r.hits
                    /\ ~Allowed(r) => store[own].count > Max(Limiter(r)))
    /\ [][ \A r \in BagToSet(inflight) :
            (StoreIncrement(r) /\ Limiter(r) \in UserScoped /\ r.req.user = None) =>
                \A ip \in IPs \ {r.req.ip} :
                    LET key == <<StatedPrefix(Limiter(r)), ip>>
                    IN  CounterIn(store', now', key) = CounterIn(store, now, key) ]_vars

C9_Witness ==
    /\ Tally("user", <<"user_limit:", "ip1">>).denied > 0
    /\ Live(store, <<"user_limit:", "ip1">>, now)
    /\ \E r \in Replied :
         /\ Limiter(r) = "user"
         /\ r.req = Anonymous("ip2")
         /\ r.hits = 1
         /\ Allowed(r)

\* C10: incrementing an existing counter never changes its expiry instant.
C10_FixedWindow ==
    [][ \A k \in LiveKeys :
            k \in DOMAIN store' =>
                /\ store'[k].expiry = store[k].expiry
                /\ store'[k].created = store[k].created ]_vars

C10_Witness ==
    \E r \in Replied :
        LET key == StoreKey(Limiter(r), r.req)
        IN  /\ Limiter(r) = "general"
            /\ ~r.fresh
            /\ r.hits >= 2
            /\ r.at > store[key].created
            /\ r.resetTime = store[key].created + WindowMs("general")
            /\ store[key].expiry = r.resetTime

KeyStrings == {"ip1", "ip2", "u1", "t1", "t2"}

\* C12: for every request shape (user absent, user with or without an _id,
\* tenantId absent, tenant header absent or empty, IP present) the key
\* generator of the request's limiter returns a defined string key and does
\* not throw, so no request ends with an error raised by key resolution.
C12_KeyGeneratorTotal ==
    \A r \in BagToSet(inflight) :
        /\ KeyGenerator(Limiter(r), r.req) \in KeyStrings
        /\ r.phase = "replied" => ~r.failed

\* a tenant identifier or header counts as present when given and not empty
Present(v) == v # None /\ v # ""

StatedTenantIdentity(req) ==
    IF Present(req.tenantId) THEN req.tenantId
    ELSE IF Present(req.header) THEN req.header
    ELSE req.ip

\* C13: the tenant limiter counts a request under the tenant identifier
\* attached to it if present, else under its x-tenant-id header if present,
\* else under its IP; a request without tenant context is counted under its
\* IP and does not fail. The increment touches that counter and no other.
C13_TenantPrecedence ==
    /\ [](\A r \in BagToSet(inflight) :
            (Limiter(r) = "tenant" /\ r.phase = "replied") =>
                LET key == <<"tenant_limit:", StatedTenantIdentity(r.req)>>
                IN  /\ ~r.failed
                    /\ key \in DOMAIN store
                    /\ store[key].count >= r.hits)
    /\ [][ \A r \in BagToSet(inflight) :
            (StoreIncrement(r) /\ Limiter(r) = "tenant") =>
                LET key == <<"tenant_limit:", StatedTenantIdentity(r.req)>>
                IN  /\ store'[key].count = CounterIn(store, now, key) + 1
                    /\ DOMAIN store' = DOMAIN store \cup {key}
                    /\ \A k \in DOMAIN store \ {key} : store'[k] = store[k] ]_vars

C13_Witness ==
    /\ \E r \in Replied : r.req = Req("ip1", None, "t1", "t2") /\ r.hits = 1
    /\ \E r \in Replied : r.req = Req("ip1", None, "", "") /\ r.hits = 1
    /\ DOMAIN store = { <<"tenant_limit:", "t1">>, <<"tenant_limit:", "ip1">> }

\* C14: every request to a limited route eventually receives an admission
\* outcome, even if the store never answers the increment call: no request
\* stays inside a limiter for ever.
C14_EventualOutcome ==
    (inflight # EmptyBag) ~> (inflight = EmptyBag)

\* C15: the remaining quota reported with a reply is max(0, maxRequests -
\* count), count being the value the increment returned for that request: it
\* lies in 0..maxRequests-1 when the request is allowed and is 0 when it is
\* denied, however far the count has grown past maxRequests.
C15_RemainingQuota ==
    \A r \in Replied :
        LET m == StatedMax(Limiter(r))
        IN  /\ r.remaining = (IF m - r.hits > 0 THEN m - r.hits ELSE 0)
            /\ Allowed(r) => r.remaining \in 0..(m - 1)
            /\ ~Allowed(r) => r.remaining = 0

C15_Witness ==
    /\ \E r \in Replied : r.hits = 1 /\ r.remaining = 9
    /\ \E r \in Replied : r.hits = 12 /\ r.remaining = 0 /\ ~Allowed(r)
    /\ Tally("order", <<"order_limit:", "ip1">>).allowed >= 1

\* C16: when session({store: redisStore, ...}) is evaluated, redisStore
\* already holds the RedisStore created in the connectRedis().then callback,
\* so that, the connection to Redis succeeding, the session middleware stores
\* sessions in Redis under 'session:' and none in the process's memory.
C16_SessionsInRedis ==
    LET connected == server.promise = "fulfilled" \/ server.redisStore = "RedisStore"
    IN  /\ (connected /\ server.sessionStore # None) =>
                server.sessionStore = "RedisStore"
        /\ connected => server.sids = {}

\* C19: after SIGTERM the process exits, with status 0, only after the close
\* callback has run (the server has stopped listening and every connection
\* has ended) and the Redis quit has been attempted; a failure of the quit
\* is logged and is followed by the same exit with status 0.
C19_GracefulShutdown ==
    /\ [](server.exited =>
            /\ server.status = 0
            /\ server.signals > 0
            /\ server.closed /\ ~server.listening /\ server.conns = 0
            /\ server.quitTried)
    /\ [][ (~server.exited /\ server'.exited) =>
                server.closed /\ server.conns = 0 /\ server.quits > 0 ]_vars
    /\ [][ QuitSettles(FALSE) =>
                server'.exited /\ server'.status = 0 /\ server'.quitFailed ]_vars

C19_Witness ==
    /\ server.exited
    /\ server.status = 0
    /\ server.quitFailed
    /\ server.sids # {}
    /\ server.signals = 2

\* C17: two instances made by tenantLimiter (or by userLimiter) with different
\* maxRequests and windowMinutes write the same key for an identity: an
\* increment by one raises by one the count the other sees, a counter it
\* creates expires after its own window, and a counter the other created
\* keeps the expiry it had.
C17_InstancesShareCounter ==
    /\ [](\A r \in BagToSet(inflight) :
            LET l == Limiter(r)
            IN  /\ Max(Twin(l)) # Max(l) /\ WindowMs(Twin(l)) # WindowMs(l)
                /\ StoreKey(Twin(l), r.req) = StoreKey(l, r.req))
    /\ [][ \A r \in BagToSet(inflight) :
            StoreIncrement(r) =>
                LET l    == Limiter(r)
                    seen == StoreKey(Twin(l), r.req)
                IN  /\ CounterIn(store', now', seen) = CounterIn(store, now, seen) + 1
                    /\ store'[seen].expiry =
                            IF Live(store, seen, now) THEN store[seen].expiry
                            ELSE now + WindowMs(l) ]_vars

\* the 15-minute instance with quota 1 denies its first request, on a counter
\* the 60-minute instance created and which is older than 15 minutes
C17_Witness ==
    \E r \in Replied :
        /\ Limiter(r) = "tenant"
        /\ r.k = 1
        /\ r.hits = 2
        /\ ~Allowed(r)
        /\ r.at >= WindowMs("tenant")
        /\ r.resetTime = WindowMs("tenant2")
        /\ Tally("tenant2", StoreKey("tenant", r.req)).allowed = 1

\* the six patterns as the claim lists them, a key being prefix then rest
StatedPatternPrefixes ==
    { "rl:", "auth_limit:", "general_limit:", "order_limit:", "tenant_limit:",
      "user_limit:" }

Untouchable(st) == { k \in DOMAIN st : k[1] \notin StatedPatternPrefixes }

\* C18: the reset tool changes only keys matching one of its six patterns:
\* no step of it adds, removes or changes any other key, so every session
\* key under 'session:' is present and unchanged when it exits, 0 or 1.
C18_ResetLeavesOtherKeys ==
    [][ /\ Untouchable(store') = Untouchable(store)
        /\ \A k \in Untouchable(store) : store'[k] = store[k] ]_vars

C18_Witness ==
    /\ tool.pc \in {"exit0", "exit1"}
    /\ tool.failedAt \in {None, "del"}
    /\ \E k \in tool.found : k \notin DOMAIN store
    /\ \A sid \in SessionIds :
         /\ SessionKey(sid) \in DOMAIN store
         /\ store[SessionKey(sid)] = SessionEntry(sid, 0)
         /\ Live(store, SessionKey(sid), now)

====
